---- MODULE Spec2Model ----
(***************************************************************************)
(* A model of kopf's handler registries and cause matching                 *)
(* (src/kopf/reactor/registries.py), of its event posting                  *)
(* (src/kopf/clients/events.py) and of the peering its freeze and resume   *)
(* commands drive (src/kopf/cli.py).                                       *)
(*                                                                         *)
(* One registry object (an instance of one of the four registry classes)   *)
(* is populated by append() and queried by get_handlers() and              *)
(* requires_finalizer(); the filter functions used by match() are also     *)
(* exercised on their own; an OperatorRegistry keeps such registries per   *)
(* resource.  Python values are represented as follows:                    *)
(*   - None is the string "None";                                          *)
(*   - a dict read only by key (body, metadata, labels) is a function;     *)
(*   - a dict that is iterated (a handler's labels/annotations pattern) is *)
(*     a sequence of <<key, value>> pairs in insertion order;              *)
(*   - a field path (a tuple of str) is a sequence of segments, a segment  *)
(*     being a sequence of characters;                                     *)
(*   - a callable is named by a string; its name is its identity (id(fn)). *)
(***************************************************************************)
EXTENDS Integers, Sequences, FiniteSets, TLC

VARIABLES kind, _handlers, call,
          resource_watching_handlers, resource_spawning_handlers, resource_changing_handlers,
          now, store, peers

\* The state of an OperatorRegistry: its three mappings from a resource to
\* the registry of its handlers.
operator_vars ==
    <<resource_watching_handlers, resource_spawning_handlers, resource_changing_handlers>>

\* The state of the peering: the clock, the shared store of heartbeat
\* records and the peers.
peering_vars == <<now, store, peers>>

vars == <<kind, _handlers, call, operator_vars, peering_vars>>

----------------------------------------------------------------------------
(* Bounds of the model. *)

\* The longest registry that is built.
MaxHandlers == 2

\* The longest field path (in segments) that is drawn.
MaxPathLen == 2

----------------------------------------------------------------------------
(* Python values. *)

None == "None"

\* {} -- a dict without keys.
EmptyDict == [k \in {} |-> None]

\* No OperatorRegistry and no peering take part.
NoOperator ==
    /\ resource_watching_handlers = EmptyDict
    /\ resource_spawning_handlers = EmptyDict
    /\ resource_changing_handlers = EmptyDict

NoPeering ==
    /\ now = 0
    /\ store = EmptyDict
    /\ peers = EmptyDict

\* dict.get(key, default)
Get(d, key, default) == IF key \in DOMAIN d THEN d[key] ELSE default

\* The elements of a sequence.
Range(s) == {s[i] : i \in 1..Len(s)}

\* s[:n] -- the slice of the first n items (all of s when it is shorter).
Slice(s, n) == SubSeq(s, 1, IF n < Len(s) THEN n ELSE Len(s))

\* filters.MetaFilterToken
PRESENT == "<PRESENT>"
ABSENT == "<ABSENT>"

\* The user's callables used as label/annotation values: called with the
\* observed value (None when the key is missing).
MetaCallables == {"is_prod", "is_unset"}

\* The user's callables used as `when`: called with the cause's kwargs.
WhenCallables == {"always", "never", "when_initial"}

\* callable(value) for a label/annotation pattern value.
callable(value) == value \in MetaCallables

\* value(content.get(key, None), **kwargs): what the user's callable returns.
InvokeMeta(value, observed) ==
    CASE value = "is_prod" -> observed = "prod"
      [] value = "is_unset" -> observed = None

\* handler.when(**kwargs): what the user's callable returns.
InvokeWhen(when, cause) ==
    CASE when = "always" -> TRUE
      [] when = "never" -> FALSE
      [] when = "when_initial" -> cause.initial

----------------------------------------------------------------------------
(* match() and the checks it is made of.  Each check that may call the     *)
(* user's callables returns its verdict (ok) and the callables it invoked, *)
(* in order (calls); match() returns its verdict and the callables invoked *)
(* by each of its checks.                                                  *)

NoCalls == <<>>

\* A path as one dotted string: its segments' characters joined by ".".
RECURSIVE Dotted(_)
Dotted(path) ==
    IF path = <<>> THEN <<>>
    ELSE IF Len(path) = 1 THEN path[1]
    ELSE path[1] \o <<".">> \o Dotted(Tail(path))

\* _matches_field gone wrong: the paths are compared as dotted strings, so
\* that the slices cut characters, not segments.
_matches_field_by_characters(handler, changed_fields, ignore_fields) ==
    \/ ignore_fields
    \/ handler.cls # "ResourceChangingHandler"
    \/ handler.field = <<>>
    \/ \E changed_field \in changed_fields :
          \/ Slice(Dotted(changed_field), Len(Dotted(handler.field))) = Dotted(handler.field)
          \/ Dotted(changed_field) = Slice(Dotted(handler.field), Len(Dotted(changed_field)))

_matches_field(handler, changed_fields, ignore_fields) ==
    \/ ignore_fields
    \/ handler.cls # "ResourceChangingHandler"
    \/ handler.field = <<>>
    \/ \E changed_field \in changed_fields :
          \/ Slice(changed_field, Len(handler.field)) = handler.field
          \/ changed_field = Slice(handler.field, Len(changed_field))

\* _matches_metadata gone wrong: a literal is satisfied by any value of its
\* key (the comparison of the values is left out).
RECURSIVE _matches_metadata_any_value(_, _)
_matches_metadata_any_value(pattern, content) ==
    IF pattern = <<>> THEN [ok |-> TRUE, calls |-> NoCalls]
    ELSE LET key == Head(pattern)[1]
             value == Head(pattern)[2]
             rest == _matches_metadata_any_value(Tail(pattern), content)
         IN  IF value = ABSENT /\ key \notin DOMAIN content THEN rest
             ELSE IF value = PRESENT /\ key \in DOMAIN content THEN rest
             ELSE IF callable(value) THEN
                 IF InvokeMeta(value, Get(content, key, None))
                 THEN [ok |-> rest.ok, calls |-> <<value>> \o rest.calls]
                 ELSE [ok |-> FALSE, calls |-> <<value>>]
             ELSE IF key \notin DOMAIN content THEN [ok |-> FALSE, calls |-> NoCalls]
             ELSE rest

RECURSIVE _matches_metadata(_, _)
_matches_metadata(pattern, content) ==
    IF pattern = <<>> THEN [ok |-> TRUE, calls |-> NoCalls]
    ELSE LET key == Head(pattern)[1]
             value == Head(pattern)[2]
             rest == _matches_metadata(Tail(pattern), content)
         IN  IF value = ABSENT /\ key \notin DOMAIN content THEN rest
             ELSE IF value = PRESENT /\ key \in DOMAIN content THEN rest
             ELSE IF callable(value) THEN
                 IF InvokeMeta(value, Get(content, key, None))
                 THEN [ok |-> rest.ok, calls |-> <<value>> \o rest.calls]
                 ELSE [ok |-> FALSE, calls |-> <<value>>]
             ELSE IF key \notin DOMAIN content THEN [ok |-> FALSE, calls |-> NoCalls]
             ELSE IF value # content[key] THEN [ok |-> FALSE, calls |-> NoCalls]
             ELSE rest

_matches_labels(handler, cause) ==
    IF handler.labels = <<>> THEN [ok |-> TRUE, calls |-> NoCalls]
    ELSE _matches_metadata(handler.labels,
                           Get(Get(cause.body, "metadata", EmptyDict), "labels", EmptyDict))

_matches_annotations(handler, cause) ==
    IF handler.annotations = <<>> THEN [ok |-> TRUE, calls |-> NoCalls]
    ELSE _matches_metadata(handler.annotations,
                           Get(Get(cause.body, "metadata", EmptyDict), "annotations", EmptyDict))

_matches_filter_callback(handler, cause) ==
    IF handler.when = None THEN [ok |-> TRUE, calls |-> NoCalls]
    ELSE [ok |-> InvokeWhen(handler.when, cause), calls |-> <<handler.when>>]

\* all([...]) over a list: the four checks are all evaluated, then combined.
match(handler, cause, changed_fields, ignore_fields) ==
    LET f == _matches_field(handler, changed_fields, ignore_fields)
        l == _matches_labels(handler, cause)
        a == _matches_annotations(handler, cause)
        w == _matches_filter_callback(handler, cause)
    IN  [ok |-> f /\ l.ok /\ a.ok /\ w.ok,
         calls |-> [labels |-> l.calls, annotations |-> a.calls, when |-> w.calls]]

----------------------------------------------------------------------------
(* The registries. *)

RECURSIVE dedup_loop(_, _)
dedup_loop(handlers, seen_ids) ==
    IF handlers = <<>> THEN <<>>
    ELSE IF Head(handlers).fn \in seen_ids
         THEN dedup_loop(Tail(handlers), seen_ids)
         ELSE <<Head(handlers)>> \o dedup_loop(Tail(handlers), seen_ids \cup {Head(handlers).fn})

\* _deduplicated gone wrong: seen_ids is never added to, so nothing is
\* ever seen.
_deduplicated_without_add(handlers) == handlers

_deduplicated(handlers) == dedup_loop(handlers, {})

\* ActivityRegistry.iter_handlers: `and` binds tighter than `or`.
activity_iter_handlers(handlers, activity) ==
    LET regular == SelectSeq(handlers, LAMBDA handler :
                       handler.activity = None
                       \/ (handler.activity = activity /\ ~handler._fallback))
        fallback == SelectSeq(handlers, LAMBDA handler :
                       handler.activity = None
                       \/ (handler.activity = activity /\ handler._fallback))
    IN  IF regular # <<>> THEN regular ELSE fallback

activity_get_handlers(handlers, activity) ==
    _deduplicated(activity_iter_handlers(handlers, activity))

watching_iter_handlers(handlers, cause, excluded) ==
    SelectSeq(handlers, LAMBDA handler :
        /\ handler.id \notin excluded
        /\ match(handler, cause, {}, TRUE).ok)

spawning_iter_handlers(handlers, cause, excluded) ==
    SelectSeq(handlers, LAMBDA handler :
        /\ handler.id \notin excluded
        /\ match(handler, cause, {}, FALSE).ok)

\* frozenset(field for _, field, _, _ in cause.diff or [])
changed_fields_of(cause) == {d[2] : d \in Range(cause.diff)}

\* changing_iter_handlers gone wrong: the handler's reason is not compared.
changing_iter_handlers_any_reason(handlers, cause, excluded) ==
    SelectSeq(handlers, LAMBDA handler :
        /\ handler.id \notin excluded
        /\ ~(handler.initial /\ ~cause.initial)
        /\ ~(handler.initial /\ cause.deleted /\ ~handler.deleted)
        /\ match(handler, cause, changed_fields_of(cause), FALSE).ok)

\* changing_iter_handlers gone wrong: initial handlers are not skipped on
\* deletion.
changing_iter_handlers_initial_on_deletion(handlers, cause, excluded) ==
    SelectSeq(handlers, LAMBDA handler :
        /\ handler.id \notin excluded
        /\ (handler.reason = None \/ handler.reason = cause.reason)
        /\ ~(handler.initial /\ ~cause.initial)
        /\ match(handler, cause, changed_fields_of(cause), FALSE).ok)

\* changing_iter_handlers gone wrong: excluded is not consulted.
changing_iter_handlers_ignoring_excluded(handlers, cause, excluded) ==
    SelectSeq(handlers, LAMBDA handler :
        /\ (handler.reason = None \/ handler.reason = cause.reason)
        /\ ~(handler.initial /\ ~cause.initial)
        /\ ~(handler.initial /\ cause.deleted /\ ~handler.deleted)
        /\ match(handler, cause, changed_fields_of(cause), FALSE).ok)

changing_iter_handlers(handlers, cause, excluded) ==
    SelectSeq(handlers, LAMBDA handler :
        /\ handler.id \notin excluded
        /\ (handler.reason = None \/ handler.reason = cause.reason)
        /\ ~(handler.initial /\ ~cause.initial)
        /\ ~(handler.initial /\ cause.deleted /\ ~handler.deleted)
        /\ match(handler, cause, changed_fields_of(cause), FALSE).ok)

\* The iter_handlers of the registry's class.
iter_handlers(k, handlers, cause, excluded) ==
    CASE k = "watching" -> watching_iter_handlers(handlers, cause, excluded)
      [] k = "spawning" -> spawning_iter_handlers(handlers, cause, excluded)
      [] k = "changing" -> changing_iter_handlers(handlers, cause, excluded)

\* A sequence back to front.
Reverse(s) == [i \in 1..Len(s) |-> s[Len(s) + 1 - i]]

\* get_handlers gone wrong: the newest registration comes first.
get_handlers_newest_first(k, handlers, cause, excluded) ==
    Reverse(_deduplicated(iter_handlers(k, handlers, cause, excluded)))

\* get_handlers gone wrong: the excluded ids are taken out after the
\* deduplication, not before it.
get_handlers_excluding_last(k, handlers, cause, excluded) ==
    SelectSeq(_deduplicated(iter_handlers(k, handlers, cause, {})),
              LAMBDA handler : handler.id \notin excluded)

\* ResourceRegistry.get_handlers
get_handlers(k, handlers, cause, excluded) ==
    _deduplicated(iter_handlers(k, handlers, cause, excluded))

\* requires_finalizer gone wrong: excluded is not consulted.
requires_finalizer_ignoring_excluded(handlers, cause, excluded) ==
    \E i \in 1..Len(handlers) :
        /\ handlers[i].requires_finalizer
        /\ match(handlers[i], cause, {}, FALSE).ok

\* requires_finalizer gone wrong: the handler's reason is compared with the
\* cause's, as iter_handlers does.
requires_finalizer_for_reason(handlers, cause, excluded) ==
    \E i \in 1..Len(handlers) :
        /\ handlers[i].id \notin excluded
        /\ handlers[i].requires_finalizer
        /\ handlers[i].reason = None \/ handlers[i].reason = cause.reason
        /\ match(handlers[i], cause, {}, FALSE).ok

\* requires_finalizer of the spawning and of the changing registry (the
\* same loop in both): match() is called with its default changed_fields.
RECURSIVE requires_finalizer(_, _, _)
requires_finalizer(handlers, cause, excluded) ==
    IF handlers = <<>> THEN FALSE
    ELSE LET handler == Head(handlers)
         IN  IF /\ handler.id \notin excluded
                /\ handler.requires_finalizer
                /\ match(handler, cause, {}, FALSE).ok
             THEN TRUE
             ELSE requires_finalizer(Tail(handlers), cause, excluded)

----------------------------------------------------------------------------
(* The values handlers and causes are built from. *)

HandlerIds == {"h1", "h2"}

\* The identities of the registered callbacks.
Fns == {"f", "g"}

\* handlers.Activity
Activities == {"STARTUP", "AUTHENTICATION"}

\* causation.Reason
CREATE == "create"
UPDATE == "update"
DELETE == "delete"

Kinds == {"activity", "watching", "spawning", "changing"}

ResourceKinds == {"watching", "spawning", "changing"}

\* The handler class a registry of kind k holds (the registry's type parameter).
HandlerClass(k) ==
    CASE k = "watching" -> "ResourceWatchingHandler"
      [] k = "spawning" -> "ResourceSpawningHandler"
      [] k = "changing" -> "ResourceChangingHandler"

\* generate_id(fn, id): the explicit id, or else the callable's own name.
generate_id(fn, id) == IF id # None THEN id ELSE fn

ActivityHandler(id, fn, activity, fallback) ==
    [id |-> id, fn |-> fn, activity |-> activity, _fallback |-> fallback]

\* A handler of a resource registry; a watching or spawning handler has no
\* reason, field, initial or deleted, which are then left at their defaults
\* and never read.
ResourceHandler(cls, id, fn, reason, field, initial, deleted, finalizer, labels, annotations, when) ==
    [cls |-> cls, id |-> id, fn |-> fn, reason |-> reason, field |-> field,
     initial |-> initial, deleted |-> deleted, requires_finalizer |-> finalizer,
     labels |-> labels, annotations |-> annotations, when |-> when]

\* A cause; diff is a sequence of (operation, field, old, new).
Cause(reason, initial, deleted, diff, body) ==
    [reason |-> reason, initial |-> initial, deleted |-> deleted,
     diff |-> diff, body |-> body]

\* A body with the given labels and annotations under metadata.
BodyWith(labels, annotations) ==
    ("metadata" :> (("labels" :> labels) @@ ("annotations" :> annotations)))

\* Segments of field paths.
Seg_a == <<"a">>
Seg_ab == <<"a", "b">>
Seg_c == <<"c">>

EnvPresent == <<<<"env", PRESENT>>>>

----------------------------------------------------------------------------
(* The operations on one registry. *)

AppendHandler(handler) ==
    /\ Len(_handlers) < MaxHandlers
    /\ _handlers' = Append(_handlers, handler)
    /\ call' = [op |-> "append"]
    /\ UNCHANGED <<kind, operator_vars, peering_vars>>

GetHandlers(cause, excluded) ==
    /\ kind \in ResourceKinds
    /\ call' = [op |-> "get_handlers", cause |-> cause, excluded |-> excluded,
                ret |-> get_handlers(kind, _handlers, cause, excluded)]
    /\ UNCHANGED <<kind, _handlers, operator_vars, peering_vars>>

ActivityGetHandlers(activity) ==
    /\ kind = "activity"
    /\ call' = [op |-> "activity_get_handlers", activity |-> activity,
                ret |-> activity_get_handlers(_handlers, activity)]
    /\ UNCHANGED <<kind, _handlers, operator_vars, peering_vars>>

RequiresFinalizer(cause, excluded) ==
    /\ kind \in {"spawning", "changing"}
    /\ call' = [op |-> "requires_finalizer", cause |-> cause, excluded |-> excluded,
                ret |-> requires_finalizer(_handlers, cause, excluded)]
    /\ UNCHANGED <<kind, _handlers, operator_vars, peering_vars>>

----------------------------------------------------------------------------
(* Spec: a registry of any of the four classes, filled with handlers that  *)
(* share callbacks and ids, and looked up.                                 *)

SpecHandlers(k) ==
    IF k = "activity"
    THEN {ActivityHandler(generate_id(fn, None), fn, activity, fallback) :
            fn \in Fns, activity \in {None} \cup Activities, fallback \in BOOLEAN}
    ELSE {ResourceHandler(HandlerClass(k), generate_id(fn, id), fn, reason, <<>>,
                          FALSE, FALSE, FALSE, labels, <<>>, None) :
            id \in HandlerIds, fn \in Fns,
            reason \in (IF k = "changing" THEN {None, CREATE} ELSE {None}),
            labels \in {<<>>, EnvPresent}}

SpecCauses ==
    {Cause(reason, FALSE, FALSE, <<>>, body) :
        reason \in {CREATE, UPDATE},
        body \in {EmptyDict, BodyWith(("env" :> "prod"), EmptyDict)}}

Init ==
    /\ kind \in Kinds
    /\ _handlers = <<>>
    /\ NoOperator /\ NoPeering
    /\ call = [op |-> "init"]

Next ==
    \/ \E handler \in SpecHandlers(kind) : AppendHandler(handler)
    \/ \E cause \in SpecCauses, excluded \in SUBSET HandlerIds : GetHandlers(cause, excluded)
    \/ \E activity \in Activities : ActivityGetHandlers(activity)

Spec == Init /\ [][Next]_vars

----------------------------------------------------------------------------
(* Properties of the lookups (under Spec). *)

IsLookup == call.op \in {"get_handlers", "activity_get_handlers"}

\* What iter_handlers yields for the lookup just made: the matching
\* registrations, before deduplication.
Candidates ==
    CASE call.op = "get_handlers" ->
            iter_handlers(kind, _handlers, call.cause, call.excluded)
      [] call.op = "activity_get_handlers" ->
            activity_iter_handlers(_handlers, call.activity)
      [] OTHER -> <<>>

\* The position of the first candidate with the callback of candidate n.
FirstWithFn(n) ==
    CHOOSE m \in 1..n :
        /\ Candidates[m].fn = Candidates[n].fn
        /\ \A l \in 1..(m - 1) : Candidates[l].fn # Candidates[n].fn

\* s is t with some items left out, the order of the rest kept.
IsSubsequence(s, t) ==
    \E f \in [1..Len(s) -> 1..Len(t)] :
        /\ \A i, j \in 1..Len(s) : i < j => f[i] < f[j]
        /\ \A i \in 1..Len(s) : s[i] = t[f[i]]

\* C1: in all four registries the result of get_handlers holds no two records
\* with the same callback, every returned record is a matching registration,
\* and for every callback with a matching registration exactly one record is
\* returned: the earliest-registered matching one.
C1_OneRecordPerCallback ==
    IsLookup =>
        /\ \A i, j \in 1..Len(call.ret) :
              i # j => call.ret[i].fn # call.ret[j].fn
        /\ \A i \in 1..Len(call.ret) :
              \E n \in 1..Len(Candidates) : call.ret[i] = Candidates[n]
        /\ \A n \in 1..Len(Candidates) :
              /\ Cardinality({i \in 1..Len(call.ret) :
                                 call.ret[i].fn = Candidates[n].fn}) = 1
              /\ \E i \in 1..Len(call.ret) : call.ret[i] = Candidates[FirstWithFn(n)]

\* C1's case: two different registrations of one callback both match the
\* cause of a lookup in a resource registry.
C1_Witness ==
    /\ call.op = "get_handlers"
    /\ \E m, n \in 1..Len(Candidates) :
          /\ m < n
          /\ Candidates[m].fn = Candidates[n].fn
          /\ Candidates[m] # Candidates[n]
    /\ Len(call.ret) = 1

\* A non-fallback activity handler matches when its activity is None or the
\* requested one.
ActivityMatches(handler, activity) ==
    handler.activity = None \/ handler.activity = activity

\* C2: when a non-fallback activity handler matches the requested activity,
\* ActivityRegistry.get_handlers returns non-fallback handlers only.
C2_FallbackOnlyWithoutRegular ==
    call.op = "activity_get_handlers" =>
        ((\E h \in Range(_handlers) : ~h._fallback /\ ActivityMatches(h, call.activity))
            => \A i \in 1..Len(call.ret) : ~call.ret[i]._fallback)

\* C7: no record whose id is in excluded is returned by get_handlers of a
\* watching, spawning or changing registry.
C7_ExcludedNeverReturned ==
    call.op = "get_handlers" =>
        \A i \in 1..Len(call.ret) : call.ret[i].id \notin call.excluded

\* C7's case: a registered handler that the same lookup without exclusions
\* returns has its id in excluded.
C7_Witness ==
    /\ call.op = "get_handlers"
    /\ \E h \in Range(get_handlers(kind, _handlers, call.cause, {})) :
          h.id \in call.excluded

\* C8: the result of a lookup is a subsequence of the registration sequence:
\* the returned handlers come in the order they were appended in.
C8_RegistrationOrder ==
    IsLookup => IsSubsequence(call.ret, _handlers)

\* C8's case: a lookup returns two handlers.
C8_Witness ==
    /\ IsLookup
    /\ Len(call.ret) >= 2
    /\ call.ret[1] # call.ret[2]

----------------------------------------------------------------------------
(* SpecChanging: a changing registry whose handlers differ in reason,      *)
(* initial and deleted, looked up for causes of every reason, initial or   *)
(* not, deleted or not.  The handlers are registered without an explicit   *)
(* id, as stacked decorators on one function are.                          *)

ChangingHandlers ==
    {ResourceHandler("ResourceChangingHandler", generate_id(fn, None), fn, reason, <<>>,
                     flags[1], flags[2], FALSE, <<>>, <<>>, None) :
        fn \in Fns, reason \in {None, CREATE, UPDATE},
        flags \in {<<FALSE, FALSE>>, <<TRUE, FALSE>>, <<TRUE, TRUE>>}}

ChangingCauses ==
    {Cause(reason, initial, deleted, <<>>, EmptyDict) :
        reason \in {CREATE, UPDATE, DELETE}, initial \in BOOLEAN, deleted \in BOOLEAN}

InitChanging ==
    /\ kind = "changing"
    /\ _handlers = <<>>
    /\ NoOperator /\ NoPeering
    /\ call = [op |-> "init"]

NextChanging ==
    \/ \E handler \in ChangingHandlers : AppendHandler(handler)
    \/ \E cause \in ChangingCauses, excluded \in {{}, {generate_id("f", None)}} :
          GetHandlers(cause, excluded)

SpecChanging == InitChanging /\ [][NextChanging]_vars

\* A handler with no filter other than its reason.
Unfiltered(handler) ==
    /\ ~handler.initial
    /\ handler.field = <<>>
    /\ handler.labels = <<>>
    /\ handler.annotations = <<>>
    /\ handler.when = None

\* C4, as stated: a handler with reason UPDATE is never returned for a CREATE
\* cause nor one with reason CREATE for an UPDATE cause, and every unfiltered,
\* non-excluded handler with reason None is returned for a cause of either
\* reason.
C4_ReasonAsStated ==
    (call.op = "get_handlers" /\ call.cause.reason \in {CREATE, UPDATE}) =>
        /\ \A i \in 1..Len(call.ret) :
              call.ret[i].reason \in {None, call.cause.reason}
        /\ \A h \in Range(_handlers) :
              (h.reason = None /\ Unfiltered(h) /\ h.id \notin call.excluded)
                  => h \in Range(call.ret)

\* C4, amended: as above, but the unfiltered handler with reason None is
\* returned unless an earlier registration of the same callback is returned
\* in its place; its callback is returned either way.
C4_ReasonSelects ==
    (call.op = "get_handlers" /\ call.cause.reason \in {CREATE, UPDATE}) =>
        /\ \A i \in 1..Len(call.ret) :
              call.ret[i].reason \in {None, call.cause.reason}
        /\ \A n \in 1..Len(_handlers) :
              LET h == _handlers[n]
              IN  (h.reason = None /\ Unfiltered(h) /\ h.id \notin call.excluded)
                    => \/ h \in Range(call.ret)
                       \/ \E m \in 1..(n - 1) :
                             /\ _handlers[m].fn = h.fn
                             /\ _handlers[m] \in Range(call.ret)

\* C4's case: handlers of reason None, CREATE and UPDATE are registered and a
\* lookup for a CREATE or UPDATE cause returns one with reason None.
C4_Witness ==
    /\ call.op = "get_handlers"
    /\ call.cause.reason \in {CREATE, UPDATE}
    /\ \E h \in Range(_handlers) :
          h.reason \in {CREATE, UPDATE} /\ h.reason # call.cause.reason
             /\ ~h.initial /\ h.id \notin call.excluded
    /\ \E i \in 1..Len(call.ret) : call.ret[i].reason = None

\* C5: a handler with initial=True and deleted=False is never returned for a
\* cause with deleted=True.
C5_InitialSkippedOnDeletion ==
    (call.op = "get_handlers" /\ call.cause.deleted) =>
        \A i \in 1..Len(call.ret) : ~(call.ret[i].initial /\ ~call.ret[i].deleted)

\* C5's case: an initial handler without the deletion opt-in, not excluded and
\* of a fitting reason, is registered when an initial cause with deleted=True
\* is looked up, and an initial handler with the opt-in is returned.
C5_Witness ==
    /\ call.op = "get_handlers"
    /\ call.cause.deleted
    /\ call.cause.initial
    /\ \E h \in Range(_handlers) :
          /\ h.initial /\ ~h.deleted
          /\ h.id \notin call.excluded
          /\ h.reason \in {None, call.cause.reason}
    /\ \E i \in 1..Len(call.ret) : call.ret[i].initial /\ call.ret[i].deleted

----------------------------------------------------------------------------
(* What the filters of a handler require of a cause, stated key by key and *)
(* path by path.                                                           *)

\* p is a prefix of q, compared segment by segment.
PathIsPrefix(p, q) ==
    /\ Len(p) <= Len(q)
    /\ \A i \in 1..Len(p) : p[i] = q[i]

\* Some changed path is a prefix of the field or the field a prefix of it.
FieldScopePasses(field, changed_fields) ==
    \E changed \in changed_fields :
        PathIsPrefix(changed, field) \/ PathIsPrefix(field, changed)

\* The field-scope check as a whole.
FieldCheckPasses(handler, changed_fields, ignore_fields) ==
    \/ ignore_fields
    \/ handler.cls # "ResourceChangingHandler"
    \/ handler.field = <<>>
    \/ FieldScopePasses(handler.field, changed_fields)

\* The constraint one declared key puts on the observed metadata.
KeyPasses(key, value, content) ==
    CASE value = PRESENT -> key \in DOMAIN content
      [] value = ABSENT -> key \notin DOMAIN content
      [] value \in MetaCallables ->
            InvokeMeta(value, IF key \in DOMAIN content THEN content[key] ELSE None)
      [] OTHER -> key \in DOMAIN content /\ content[key] = value

MetadataPasses(pattern, content) ==
    \A i \in 1..Len(pattern) : KeyPasses(pattern[i][1], pattern[i][2], content)

\* The labels or annotations of a body; none when the body has no metadata
\* or the metadata has no such section.
Observed(body, section) ==
    IF "metadata" \in DOMAIN body /\ section \in DOMAIN body["metadata"]
    THEN body["metadata"][section]
    ELSE EmptyDict

WhenPasses(handler, cause) ==
    handler.when = None \/ InvokeWhen(handler.when, cause)

\* The handler's filters pass for the cause, given these changed fields.
FiltersPass(handler, cause, changed_fields, ignore_fields) ==
    /\ FieldCheckPasses(handler, changed_fields, ignore_fields)
    /\ MetadataPasses(handler.labels, Observed(cause.body, "labels"))
    /\ MetadataPasses(handler.annotations, Observed(cause.body, "annotations"))
    /\ WhenPasses(handler, cause)

----------------------------------------------------------------------------
(* SpecFinalizer: a spawning or changing registry whose handlers differ in *)
(* requires_finalizer, id and filter, asked whether a finalizer is needed. *)

FinalizerHandlers(k) ==
    IF k = "spawning"
    THEN {ResourceHandler(HandlerClass(k), id, "f", None, <<>>, FALSE, FALSE,
                          finalizer, labels, <<>>, None) :
            id \in HandlerIds, finalizer \in BOOLEAN, labels \in {<<>>, EnvPresent}}
    ELSE {ResourceHandler(HandlerClass(k), id, "f", filter[1], filter[2], FALSE, FALSE,
                          finalizer, filter[3], <<>>, None) :
            id \in HandlerIds, finalizer \in BOOLEAN,
            filter \in {<<None, <<>>, <<>>>>,
                        <<DELETE, <<>>, <<>>>>,
                        <<None, <<Seg_a>>, <<>>>>,
                        <<None, <<>>, EnvPresent>>}}

FinalizerCauses ==
    {Cause(reason, FALSE, FALSE, diff, body) :
        reason \in {CREATE, DELETE},
        diff \in {<<>>, <<<<"change", <<Seg_a>>, "old", "new">>>>},
        body \in {EmptyDict, BodyWith(("env" :> "prod"), EmptyDict)}}

InitFinalizer ==
    /\ kind \in {"spawning", "changing"}
    /\ _handlers = <<>>
    /\ NoOperator /\ NoPeering
    /\ call = [op |-> "init"]

NextFinalizer ==
    \/ \E handler \in FinalizerHandlers(kind) : AppendHandler(handler)
    \/ \E cause \in FinalizerCauses, excluded \in {{}, {"h1"}} :
          RequiresFinalizer(cause, excluded)

SpecFinalizer == InitFinalizer /\ [][NextFinalizer]_vars

\* C3: requires_finalizer of a spawning or changing registry is true exactly
\* when some registered handler that is not excluded and that matches the
\* cause declares requires_finalizer; it is false for an empty registry.
\* Matching is match(handler, cause) as requires_finalizer calls it: the
\* labels, annotations and when filters, and the field scope with no changed
\* fields given.
C3_RequiresFinalizer ==
    call.op = "requires_finalizer" =>
        /\ call.ret <=>
              \E h \in Range(_handlers) :
                  /\ h.id \notin call.excluded
                  /\ h.requires_finalizer
                  /\ FiltersPass(h, call.cause, {}, FALSE)
        /\ _handlers = <<>> => ~call.ret

\* C3's case: the answer is true because of the second registered handler,
\* the first one, which declares requires_finalizer too, being excluded.
C3_Witness ==
    /\ call.op = "requires_finalizer"
    /\ call.ret
    /\ Len(_handlers) = 2
    /\ _handlers[1].requires_finalizer
    /\ _handlers[1].id \in call.excluded
    /\ _handlers[2].labels # <<>>

----------------------------------------------------------------------------
(* SpecMatch: match() and its checks, each applied once to a handler and a *)
(* cause drawn from the sets below.                                        *)

\* The most paths in a set of changed fields.
MaxChanged == 2

Segments == {Seg_a, Seg_ab, Seg_c}

Paths == UNION {[1..n -> Segments] : n \in 0..MaxPathLen}

\* The sets of at most n paths.
RECURSIVE PathSets(_)
PathSets(n) ==
    IF n = 0 THEN {{}}
    ELSE LET smaller == PathSets(n - 1)
         IN  smaller \cup {s \cup {p} : s \in smaller, p \in Paths}

MetaKeys == {"env", "tier"}

MetaValues == {PRESENT, ABSENT, "prod", "dev"} \cup MetaCallables

\* The label/annotation patterns: dicts over MetaKeys, in every insertion order.
MetaPatterns ==
    {<<>>}
    \cup {<<<<k, v>>>> : k \in MetaKeys, v \in MetaValues}
    \cup UNION {{<<<<k1, v1>>, <<k2, v2>>>> :
                    k2 \in MetaKeys \ {k1}, v1 \in MetaValues, v2 \in MetaValues} :
                 k1 \in MetaKeys}

\* The observed labels/annotations: dicts from some of MetaKeys to strings.
MetaContents == UNION {[keys -> {"prod", "dev"}] : keys \in SUBSET MetaKeys}

\* Bodies without metadata, with empty metadata, and with one section.
MetaBodies ==
    {EmptyDict, ("metadata" :> EmptyDict)}
    \cup {("metadata" :> (section :> content)) :
            section \in {"labels", "annotations"}, content \in MetaContents}

PlainCause(body) == Cause(CREATE, FALSE, FALSE, <<>>, body)

FieldHandler(cls, field) ==
    ResourceHandler(cls, "h1", "f", None, field, FALSE, FALSE, FALSE, <<>>, <<>>, None)

MatchCall(fn, handler, cause, changed_fields, ignore_fields) ==
    [op |-> "call", fn |-> fn, handler |-> handler, cause |-> cause,
     changed_fields |-> changed_fields, ignore_fields |-> ignore_fields]

FieldCall(field, changed_fields, cls, ignore_fields) ==
    MatchCall("_matches_field", FieldHandler(cls, field), PlainCause(EmptyDict),
              changed_fields, ignore_fields)

MetadataCalls ==
    {MatchCall(fn, [FieldHandler("ResourceChangingHandler", <<>>)
                        EXCEPT !.labels = pattern, !.annotations = pattern],
               PlainCause(body), {}, FALSE) :
        fn \in {"_matches_labels", "_matches_annotations"},
        pattern \in MetaPatterns, body \in MetaBodies}

MatchHandlers ==
    {ResourceHandler("ResourceChangingHandler", "h1", "f", None, field, FALSE, FALSE, FALSE,
                     labels, annotations, when) :
        field \in {<<>>, <<Seg_a>>},
        labels \in {<<>>, <<<<"env", "prod">>>>, <<<<"env", "is_prod">>>>},
        annotations \in {<<>>, <<<<"tier", PRESENT>>>>, <<<<"tier", "is_unset">>>>},
        when \in {None} \cup WhenCallables}

MatchCauses ==
    {Cause(CREATE, initial, FALSE, <<>>, BodyWith(labels, annotations)) :
        initial \in BOOLEAN,
        labels \in {EmptyDict, ("env" :> "prod")},
        annotations \in {EmptyDict, ("tier" :> "dev")}}

MatchCalls ==
    {MatchCall("match", handler, cause, changed_fields, ignore_fields) :
        handler \in MatchHandlers, cause \in MatchCauses,
        changed_fields \in {{}, {<<Seg_a, Seg_c>>}}, ignore_fields \in BOOLEAN}

Return(ret) ==
    [op |-> "return", fn |-> call.fn, handler |-> call.handler, cause |-> call.cause,
     changed_fields |-> call.changed_fields, ignore_fields |-> call.ignore_fields,
     ret |-> ret]

ApplyMatchesField ==
    /\ call.op = "call" /\ call.fn = "_matches_field"
    /\ call' = Return(_matches_field(call.handler, call.changed_fields, call.ignore_fields))
    /\ UNCHANGED <<kind, _handlers, operator_vars, peering_vars>>

ApplyMatchesLabels ==
    /\ call.op = "call" /\ call.fn = "_matches_labels"
    /\ call' = Return(_matches_labels(call.handler, call.cause))
    /\ UNCHANGED <<kind, _handlers, operator_vars, peering_vars>>

ApplyMatchesAnnotations ==
    /\ call.op = "call" /\ call.fn = "_matches_annotations"
    /\ call' = Return(_matches_annotations(call.handler, call.cause))
    /\ UNCHANGED <<kind, _handlers, operator_vars, peering_vars>>

ApplyMatch ==
    /\ call.op = "call" /\ call.fn = "match"
    /\ call' = Return(match(call.handler, call.cause, call.changed_fields, call.ignore_fields))
    /\ UNCHANGED <<kind, _handlers, operator_vars, peering_vars>>

InitMatch ==
    /\ kind = "changing"
    /\ _handlers = <<>>
    /\ NoOperator /\ NoPeering
    /\ \/ \E field \in Paths, changed_fields \in PathSets(MaxChanged),
             how \in {<<"ResourceChangingHandler", FALSE>>,
                      <<"ResourceChangingHandler", TRUE>>,
                      <<"ResourceSpawningHandler", FALSE>>} :
             call = FieldCall(field, changed_fields, how[1], how[2])
       \/ call \in MetadataCalls
       \/ call \in MatchCalls

NextMatch ==
    \/ ApplyMatchesField
    \/ ApplyMatchesLabels
    \/ ApplyMatchesAnnotations
    \/ ApplyMatch

SpecMatch == InitMatch /\ [][NextMatch]_vars

Returned(fn) == call.op = "return" /\ call.fn = fn

\* C6: for a changing handler with a field path and ignore_fields false, the
\* field-scope check passes exactly when some changed path is a segment-wise
\* prefix of the handler's field or the field a segment-wise prefix of the
\* changed path; the relation is symmetric, a path matches itself, paths that
\* differ in a segment both have (siblings) do not match, and a segment does
\* not match a longer segment it is a character prefix of.
C6_FieldScope ==
    (/\ Returned("_matches_field")
     /\ call.handler.cls = "ResourceChangingHandler"
     /\ call.handler.field # <<>>
     /\ ~call.ignore_fields) =>
        LET field == call.handler.field
            changed_fields == call.changed_fields
        IN  /\ call.ret <=> FieldScopePasses(field, changed_fields)
            /\ field \in changed_fields => call.ret
            /\ \A changed \in changed_fields :
                  (changed_fields = {changed} /\ changed # <<>>) =>
                      /\ call.ret = _matches_field([call.handler EXCEPT !.field = changed],
                                                   {field}, FALSE)
                      /\ (\E i \in 1..Len(field) :
                             i <= Len(changed) /\ field[i] # changed[i]) => ~call.ret
            /\ (field = <<Seg_a>> /\ changed_fields = {<<Seg_ab>>}) => ~call.ret
            /\ (field = <<Seg_ab>> /\ changed_fields = {<<Seg_a>>}) => ~call.ret

\* C6's case: of two changed paths, one extends the handler's field and the
\* other is unrelated to it, and the check passes.
C6_Witness ==
    /\ Returned("_matches_field")
    /\ call.handler.cls = "ResourceChangingHandler"
    /\ ~call.ignore_fields
    /\ call.handler.field = <<Seg_a>>
    /\ call.changed_fields = {<<Seg_a, Seg_c>>, <<Seg_ab>>}
    /\ call.ret

\* The section a metadata check reads and the pattern it checks.
SectionOf(fn) == IF fn = "_matches_labels" THEN "labels" ELSE "annotations"

\* C9: the label check and the annotation check pass exactly when every
\* declared key satisfies its constraint against the observed metadata
\* (PRESENT: the key exists; ABSENT: it does not; a literal: it exists with
\* that value; a predicate: it returns true); no declared keys pass; a body
\* without metadata or without the section is checked as empty metadata.
C9_Metadata ==
    (Returned("_matches_labels") \/ Returned("_matches_annotations")) =>
        LET section == SectionOf(call.fn)
            pattern == call.handler[section]
            body == call.cause.body
        IN  /\ call.ret.ok <=> MetadataPasses(pattern, Observed(body, section))
            /\ pattern = <<>> => call.ret.ok
            /\ ("metadata" \notin DOMAIN body \/ section \notin DOMAIN body["metadata"])
                  => (call.ret.ok <=> MetadataPasses(pattern, EmptyDict))

\* C9's case: two keys are declared, the first is satisfied and the second,
\* a literal, meets another value, so the check fails.
C9_Witness ==
    /\ Returned("_matches_labels")
    /\ call.handler.labels = <<<<"env", PRESENT>>, <<"tier", "prod">>>>
    /\ Observed(call.cause.body, "labels") = (("env" :> "dev") @@ ("tier" :> "dev"))
    /\ ~call.ret.ok

\* C10: match stops at its first failing check: when the field scope fails,
\* no callable is invoked; when the labels fail, no annotation predicate and
\* no when callback is invoked; when the annotations fail, the when callback
\* is not invoked.
C10_ShortCircuit ==
    Returned("match") =>
        LET handler == call.handler
            field_ok == FieldCheckPasses(handler, call.changed_fields, call.ignore_fields)
            labels_ok == MetadataPasses(handler.labels, Observed(call.cause.body, "labels"))
            annotations_ok ==
                MetadataPasses(handler.annotations, Observed(call.cause.body, "annotations"))
            calls == call.ret.calls
        IN  /\ ~field_ok =>
                  calls.labels = <<>> /\ calls.annotations = <<>> /\ calls.when = <<>>
            /\ (field_ok /\ ~labels_ok) =>
                  calls.annotations = <<>> /\ calls.when = <<>>
            /\ (field_ok /\ labels_ok /\ ~annotations_ok) => calls.when = <<>>

----------------------------------------------------------------------------
(* Event posting (src/kopf/clients/events.py).  A str is a sequence of     *)
(* code points; an exception is named by its class.                        *)

MAX_MESSAGE_LENGTH == 1024

\* '...'
CUT_MESSAGE_INFIX == <<46, 46, 46>>

\* s[:stop]
SliceTo(s, stop) ==
    LET n == Len(s)
        e == IF stop >= 0 THEN (IF stop < n THEN stop ELSE n)
                          ELSE (IF n + stop > 0 THEN n + stop ELSE 0)
    IN  SubSeq(s, 1, e)

\* s[start:]
SliceFrom(s, start) ==
    LET n == Len(s)
        b == IF start >= 0 THEN (IF start < n THEN start ELSE n)
                           ELSE (IF n + start > 0 THEN n + start ELSE 0)
    IN  SubSeq(s, b + 1, n)

\* The message with both halves cut at MAX_MESSAGE_LENGTH // 2, the infix not
\* taken off them.
shorten_without_infix_room(message) ==
    IF Len(message) > MAX_MESSAGE_LENGTH
    THEN LET infix == CUT_MESSAGE_INFIX
             prefix == SliceTo(message, MAX_MESSAGE_LENGTH \div 2)
             suffix == SliceFrom(message, (-MAX_MESSAGE_LENGTH) \div 2)
         IN  prefix \o infix \o suffix
    ELSE message

\* The message as post_event puts it into the event's body.
shorten(message) ==
    IF Len(message) > MAX_MESSAGE_LENGTH
    THEN LET infix == CUT_MESSAGE_INFIX
             prefix == SliceTo(message, MAX_MESSAGE_LENGTH \div 2 - (Len(infix) \div 2))
             suffix == SliceFrom(message, (-MAX_MESSAGE_LENGTH) \div 2
                                              + (Len(infix) - Len(infix) \div 2))
         IN  prefix \o infix \o suffix
    ELSE message

\* The classes of the exceptions the collaborators raise.
HTTPErrors == {"requests.exceptions.HTTPError", "pykube.exceptions.HTTPError"}

Exceptions ==
    HTTPErrors \cup {"requests.exceptions.ConnectionError", "requests.exceptions.Timeout",
                     "Exception"}

\* x or y, for strings and None.
Falsy(value) == value \in {None, ""}

\* post_event(ref=, type=, reason=, message=).  env tells what each
\* collaborator does when called: auth.get_pykube_cfg() (cfg),
\* auth.get_pykube_api() (api) and Event.create() (create) return ("ok") or
\* raise the exception named.  The result is how the coroutine ends (returned,
\* or raised with the exception), the warnings it logged and the event
\* bodies the API accepted.
post_event(ref, type, reason, message, env) ==
    LET ref_namespace == Get(ref, "namespace", None)
        namespace == IF Falsy(ref_namespace) THEN "current" ELSE ref_namespace
        full_ref == [k \in DOMAIN ref \cup {"namespace"} |->
                        IF k = "namespace" THEN namespace ELSE ref[k]]
        message_sent == shorten(message)
        body == [metadata |-> [namespace |-> namespace, generateName |-> "kopf-event-"],
                 action |-> "Action?",
                 type |-> type,
                 reason |-> reason,
                 message |-> message_sent,
                 reportingComponent |-> "kopf",
                 reportingInstance |-> "dev",
                 source |-> [component |-> "kopf"],
                 involvedObject |-> full_ref]
        raised == IF env.api # "ok" THEN env.api ELSE env.create
    IN  IF Falsy(ref_namespace) /\ env.cfg # "ok"
        THEN [outcome |-> "raised", exception |-> env.cfg, warnings |-> <<>>, created |-> <<>>]
        ELSE IF raised = "ok"
        THEN [outcome |-> "returned", exception |-> None, warnings |-> <<>>,
              created |-> <<body>>]
        ELSE IF raised \in HTTPErrors
        THEN [outcome |-> "returned", exception |-> None,
              warnings |-> <<[error |-> raised, type |-> type, reason |-> reason,
                              message |-> message_sent]>>,
              created |-> <<>>]
        ELSE [outcome |-> "raised", exception |-> raised, warnings |-> <<>>, created |-> <<>>]

----------------------------------------------------------------------------
(* SpecEvents: post_event applied once to a message, an object reference   *)
(* and collaborators that work or fail.                                    *)

\* How far from MAX_MESSAGE_LENGTH the lengths of the messages go.
MaxDelta == 6

MessageLengths ==
    {0, 1, Len(CUT_MESSAGE_INFIX), MAX_MESSAGE_LENGTH \div 2, 2 * MAX_MESSAGE_LENGTH}
        \cup {n \in (MAX_MESSAGE_LENGTH - MaxDelta)..(MAX_MESSAGE_LENGTH + MaxDelta) : n >= 0}

\* Messages whose characters tell their position, messages of dots only, and
\* messages with a dot at every third place.
Messages ==
    {[i \in 1..n |-> 1000 + i] : n \in MessageLengths}
        \cup {[i \in 1..n |-> 46] : n \in MessageLengths}
        \cup {[i \in 1..n |-> IF i % 3 = 0 THEN 46 ELSE 1000 + i] : n \in MessageLengths}

Refs ==
    {[kind |-> "KopfExample", name |-> "obj", namespace |-> "ns1"],
     [kind |-> "KopfExample", name |-> "obj", namespace |-> None],
     [kind |-> "KopfExample", name |-> "obj"]}

Envs ==
    {[cfg |-> cfg, api |-> api, create |-> create] :
        cfg \in {"ok", "Exception"},
        api \in {"ok", "Exception", "pykube.exceptions.HTTPError"},
        create \in {"ok"} \cup Exceptions}

PostEvent ==
    /\ call.op = "call" /\ call.fn = "post_event"
    /\ call' = [op |-> "return", fn |-> "post_event", ref |-> call.ref,
                message |-> call.message, env |-> call.env,
                ret |-> post_event(call.ref, "Normal", "Logging", call.message, call.env)]
    /\ UNCHANGED <<kind, _handlers, operator_vars, peering_vars>>

InitEvents ==
    /\ kind = "events"
    /\ _handlers = <<>>
    /\ NoOperator /\ NoPeering
    /\ \E ref \in Refs, message \in Messages, env \in Envs :
          call = [op |-> "call", fn |-> "post_event", ref |-> ref,
                  message |-> message, env |-> env]

NextEvents == PostEvent

SpecEvents == InitEvents /\ [][NextEvents]_vars

\* The message of the event post_event built, wherever it went: into the
\* created event or into the warning.
MessageSent ==
    IF call.ret.created # <<>> THEN call.ret.created[1].message
    ELSE call.ret.warnings[1].message

EventBuilt ==
    /\ Returned("post_event")
    /\ (call.ret.created # <<>> \/ call.ret.warnings # <<>>)

\* C11: a message of more than 1024 characters is sent as exactly 1024
\* characters: a head of the message, the marker '...', a tail of the message,
\* head and tail being 1021 characters together and each within two
\* characters of 512 less the marker's length; a message of at most 1024
\* characters is sent unchanged.
C11_Truncation ==
    EventBuilt =>
        LET message == call.message
            sent == MessageSent
            n == Len(message)
        IN  IF n > 1024
            THEN /\ Len(sent) = 1024
                 /\ \E head \in 0..1021 :
                       LET tail == 1021 - head
                       IN  /\ sent[head + 1] = 46 /\ sent[head + 2] = 46 /\ sent[head + 3] = 46
                           /\ head \in (512 - 3 - 2)..512
                           /\ tail \in (512 - 3 - 2)..512
                           /\ SubSeq(sent, 1, head) = SubSeq(message, 1, head)
                           /\ SubSeq(sent, head + 4, 1024) = SubSeq(message, n - tail + 1, n)
            ELSE sent = message

C11_Witness ==
    /\ EventBuilt
    /\ Len(call.message) = 2 * 1024
    /\ call.ret.created # <<>>
    /\ Len(call.ret.created[1].message) = 1024
    /\ call.message[1] # 46

\* C12: post_event returns normally whatever fails while it reports the
\* event, and logs a warning for the failure.
C12_NeverFails ==
    Returned("post_event") =>
        /\ call.ret.outcome = "returned"
        /\ call.ret.created = <<>> => call.ret.warnings # <<>>

----------------------------------------------------------------------------
(* Peering (spec 4.5): `kopf freeze` (src/kopf/cli.py) builds a Peer with  *)
(* an id, a priority and a lifetime and runs its keepalive(); `kopf        *)
(* resume` builds a Peer with the id and runs its disappear().  The Peer   *)
(* itself is described by the specification only: keepalive() rewrites    *)
(* the peer's heartbeat record on a fixed interval shorter than its        *)
(* lifetime and, on the same interval, reads the records of the other      *)
(* peers and sets the peer's state; disappear() deletes the record.  All   *)
(* peers share the peering name and one clock.                             *)

ACTIVE == "ACTIVE"
FROZEN == "FROZEN"
GONE == "GONE"

PeerIds == {"a", "b", "c"}

\* The priorities of the peers (those of the specification's example).
Priorities == {50, 100}

\* The longest lifetime of a heartbeat record, and the last instant of the clock.
MaxLifetime == 3
MaxTime == 6

\* peering.Peer(id=, name=, namespace=, priority=, lifetime=), before it runs.
\* interval is the period of its keepalive, checked the instant of its last
\* heartbeat and reading of the store, ended the instant its record was
\* deleted (its expiry, when it was deleted after that).
Peer(priority, lifetime, interval) ==
    [priority |-> priority, lifetime |-> lifetime, interval |-> interval,
     state |-> ACTIVE, started |-> FALSE, running |-> FALSE,
     checked |-> 0, ended |-> 0]

\* A heartbeat record taken for valid whenever it is there.
Unexpired_while_stored(record, t) == TRUE

\* A heartbeat record is valid until its expiry.
Unexpired(record, t) == t < record.expiry

\* The peers, other than id, whose record in the store st is unexpired at t
\* and whose priority is not lower than that of id.
RivalsNotLower(id, st, t) ==
    {other \in DOMAIN st \ {id} :
        Unexpired(st[other], t) /\ st[other].priority >= peers[id].priority}

\* The peers, other than id, whose record in the store st is unexpired at t
\* and of strictly higher priority than that of id.
Rivals(id, st, t) ==
    {other \in DOMAIN st \ {id} :
        Unexpired(st[other], t) /\ st[other].priority > peers[id].priority}

\* The store with the heartbeat record of id written at t.
Written(id, t) ==
    [other \in DOMAIN store \cup {id} |->
        IF other = id
        THEN [priority |-> peers[id].priority, expiry |-> t + peers[id].lifetime,
              written |-> t]
        ELSE store[other]]

\* One round of keepalive(): the heartbeat record is written, the records of
\* the other peers are read and the state is set.  (The write touches the
\* peer's own record only and the reading the other peers' only, so a step
\* of another peer between the two has the effect it has before or after
\* the round.)
Round(id) ==
    /\ store' = Written(id, now)
    /\ peers' = [peers EXCEPT ![id].started = TRUE, ![id].running = TRUE,
                              ![id].checked = now,
                              ![id].state = IF Rivals(id, store, now) # {}
                                            THEN FROZEN ELSE ACTIVE]
    /\ call' = [op |-> "keepalive", id |-> id, before |-> peers[id].state]
    /\ UNCHANGED <<kind, _handlers, operator_vars, now>>

\* keepalive() begins, with its first round.
StartKeepalive(id) ==
    /\ ~peers[id].started
    /\ Round(id)

\* keepalive() does its next round, an interval after the last.
Keepalive(id) ==
    /\ peers[id].running
    /\ now = peers[id].checked + peers[id].interval
    /\ Round(id)

\* keepalive() is cancelled, or its process crashes: the record stays.
StopKeepalive(id) ==
    /\ peers[id].running
    /\ peers' = [peers EXCEPT ![id].running = FALSE]
    /\ call' = [op |-> "peering"]
    /\ UNCHANGED <<kind, _handlers, operator_vars, now, store>>

\* disappear(): the record of the peer is deleted, once.
Disappear(id) ==
    /\ peers[id].started
    /\ peers[id].state # GONE
    /\ peers' = [peers EXCEPT ![id].running = FALSE, ![id].state = GONE,
                              ![id].ended = IF id \notin DOMAIN store THEN @
                                            ELSE IF now < store[id].expiry THEN now
                                            ELSE store[id].expiry]
    /\ store' = [other \in DOMAIN store \ {id} |-> store[other]]
    /\ call' = [op |-> "peering"]
    /\ UNCHANGED <<kind, _handlers, operator_vars, now>>

\* The clock advances, no running keepalive() being late for its round.
Tick ==
    /\ now < MaxTime
    /\ \A id \in PeerIds :
          peers[id].running => now < peers[id].checked + peers[id].interval
    /\ now' = now + 1
    /\ call' = [op |-> "peering"]
    /\ UNCHANGED <<kind, _handlers, operator_vars, store, peers>>

----------------------------------------------------------------------------
(* SpecPeering: three peers of one peering, of equal or different          *)
(* priorities (a's the highest, c's the lowest), each with the shortest or *)
(* the longest lifetime and a keepalive interval one less than it, that    *)
(* start, keep alive, stop and disappear in any order.                     *)

InitPeering ==
    /\ kind = "peering"
    /\ _handlers = <<>>
    /\ call = [op |-> "init"]
    /\ NoOperator
    /\ now = 0
    /\ store = EmptyDict
    /\ \E priority \in [PeerIds -> Priorities], lifetime \in [PeerIds -> {2, MaxLifetime}] :
          /\ priority["a"] >= priority["b"] /\ priority["b"] >= priority["c"]
          /\ peers = [id \in PeerIds |-> Peer(priority[id], lifetime[id], lifetime[id] - 1)]

NextPeering ==
    \/ \E id \in PeerIds : StartKeepalive(id)
    \/ \E id \in PeerIds : Keepalive(id)
    \/ \E id \in PeerIds : StopKeepalive(id)
    \/ \E id \in PeerIds : Disappear(id)
    \/ Tick

SpecPeering == InitPeering /\ [][NextPeering]_vars

Running == {id \in PeerIds : peers[id].running}

\* The peers whose record is in the store and not expired now, other than id
\* and of strictly higher priority.
HigherUnexpired(id) ==
    {other \in PeerIds \ {id} :
        /\ other \in DOMAIN store
        /\ now < store[other].expiry
        /\ peers[other].priority > peers[id].priority}

\* The instant the record of a peer ceases, or ceased, to be valid: its
\* expiry, or the instant it was deleted.
End(id) == IF id \in DOMAIN store THEN store[id].expiry ELSE peers[id].ended

\* C13 as stated: at every moment a peer running keepalive is FROZEN exactly
\* when the store holds an unexpired record of another peer of strictly
\* higher priority, and the running peer of the highest priority is ACTIVE.
C13_FrozenAtEveryMoment ==
    /\ \A id \in Running :
          /\ peers[id].state \in {ACTIVE, FROZEN}
          /\ peers[id].state = FROZEN <=> HigherUnexpired(id) # {}
    /\ \A id \in Running :
          (\A other \in Running : peers[other].priority <= peers[id].priority) =>
              peers[id].state = ACTIVE

\* C13, amended: at each round of its keepalive a peer becomes FROZEN exactly
\* when the store then holds an unexpired record of another peer of strictly
\* higher priority, and ACTIVE otherwise; a peer is FROZEN only if a peer of
\* strictly higher priority has started, so peers of equal priority never
\* freeze each other and a peer of the highest priority is never FROZEN; the
\* running peers are all FROZEN only when a peer of higher priority than all
\* of them has started and runs no more.
C13_FrozenAtCheck ==
    /\ call.op = "keepalive" =>
          /\ peers[call.id].state \in {ACTIVE, FROZEN}
          /\ peers[call.id].state = FROZEN <=> HigherUnexpired(call.id) # {}
    /\ \A id \in PeerIds :
          peers[id].state = FROZEN =>
              \E other \in PeerIds \ {id} :
                  peers[other].started /\ peers[other].priority > peers[id].priority
    /\ (Running # {} /\ \A id \in Running : peers[id].state = FROZEN) =>
          \E other \in PeerIds \ Running :
              /\ peers[other].started
              /\ \A id \in Running : peers[other].priority > peers[id].priority

\* c, of the same priority as b and lower than a, has just been frozen by a's
\* record while b's record is there and unexpired.
C13_Witness ==
    /\ call.op = "keepalive" /\ call.id = "c"
    /\ peers["c"].state = FROZEN
    /\ peers["b"].priority = peers["c"].priority
    /\ "b" \in DOMAIN store /\ now < store["b"].expiry
    /\ HigherUnexpired("c") = {"a"}
    /\ peers["b"].state = FROZEN

\* C14: a running peer that is FROZEN has a peer of strictly higher priority
\* whose record was valid no longer than one interval of the frozen peer ago
\* (so it is ACTIVE once the records of all such peers have expired or been
\* deleted for more than an interval, whatever those peers do or do not); and
\* a FROZEN peer that goes on running stays FROZEN while the record of a peer
\* of strictly higher priority stays unexpired.
C14_ThawsAfterExpiry ==
    /\ [](\A id \in Running :
             peers[id].state = FROZEN =>
                 \E other \in PeerIds \ {id} :
                     /\ peers[other].started
                     /\ peers[other].priority > peers[id].priority
                     /\ now <= End(other) + peers[id].interval)
    /\ [][\A id \in Running :
             (/\ peers[id].state = FROZEN
              /\ peers'[id].running
              /\ HigherUnexpired(id) # {}
              /\ HigherUnexpired(id)' # {}) => peers'[id].state = FROZEN]_vars

\* A round of b finds a's record expired, a having stopped, and b, FROZEN
\* until then, becomes ACTIVE.
C14_Witness ==
    /\ call.op = "keepalive" /\ call.id = "b"
    /\ call.before = FROZEN
    /\ peers["b"].state = ACTIVE
    /\ peers["a"].priority > peers["b"].priority
    /\ ~peers["a"].running
    /\ "a" \in DOMAIN store /\ store["a"].expiry <= now

----------------------------------------------------------------------------
(* OperatorRegistry: three defaultdicts from a resource to its registry of *)
(* watching, spawning and changing handlers.  A registry is stood for by   *)
(* its _handlers.                                                          *)

Resources == {"kopfexamples", "pods"}

\* The defaultdict of the registry class named by which.
Mapping(which) ==
    CASE which = "watching" -> resource_watching_handlers
      [] which = "spawning" -> resource_spawning_handlers
      [] which = "changing" -> resource_changing_handlers

\* mapping[resource] -- defaultdict.__getitem__: the registry under the key;
\* a missing key is given a new, empty registry first (__missing__).
GetItem(mapping, resource) ==
    [registry |-> IF resource \in DOMAIN mapping THEN mapping[resource] ELSE <<>>,
     mapping |-> [r \in DOMAIN mapping \cup {resource} |->
                     IF r \in DOMAIN mapping THEN mapping[r] ELSE <<>>]]

\* The three mappings with the one named by which replaced.
SetMapping(which, mapping) ==
    /\ resource_watching_handlers' =
          IF which = "watching" THEN mapping ELSE resource_watching_handlers
    /\ resource_spawning_handlers' =
          IF which = "spawning" THEN mapping ELSE resource_spawning_handlers
    /\ resource_changing_handlers' =
          IF which = "changing" THEN mapping ELSE resource_changing_handlers

\* OperatorRegistry.resources
resources ==
    DOMAIN resource_watching_handlers
        \cup DOMAIN resource_spawning_handlers
        \cup DOMAIN resource_changing_handlers

\* registry.resource_..._handlers[resource].append(handler)
Register(which, resource, handler) ==
    LET item == GetItem(Mapping(which), resource)
    IN  /\ Len(item.registry) < MaxHandlers
        /\ SetMapping(which, [item.mapping EXCEPT ![resource] = Append(item.registry, handler)])
        /\ call' = [op |-> "register", which |-> which, resource |-> resource]
        /\ UNCHANGED <<kind, _handlers, peering_vars>>

\* registry.resource_..._handlers[resource].get_handlers(cause)
LookupHandlers(which, resource, cause) ==
    LET item == GetItem(Mapping(which), resource)
    IN  /\ SetMapping(which, item.mapping)
        /\ call' = [op |-> "lookup", which |-> which, resource |-> resource,
                    ret |-> get_handlers(which, item.registry, cause, {})]
        /\ UNCHANGED <<kind, _handlers, peering_vars>>

\* registry.resource_..._handlers[resource].requires_finalizer(cause)
LookupRequiresFinalizer(which, resource, cause) ==
    LET item == GetItem(Mapping(which), resource)
    IN  /\ which \in {"spawning", "changing"}
        /\ SetMapping(which, item.mapping)
        /\ call' = [op |-> "lookup", which |-> which, resource |-> resource,
                    ret |-> requires_finalizer(item.registry, cause, {})]
        /\ UNCHANGED <<kind, _handlers, peering_vars>>

\* resource in registry.resource_..._handlers
Contains(which, resource) ==
    /\ call' = [op |-> "contains", which |-> which, resource |-> resource,
                ret |-> resource \in DOMAIN Mapping(which)]
    /\ UNCHANGED <<kind, _handlers, operator_vars, peering_vars>>

----------------------------------------------------------------------------
(* SpecOperator: an OperatorRegistry in which handlers are registered and  *)
(* looked up for two resources.                                            *)

OperatorHandler(which) ==
    ResourceHandler(HandlerClass(which), "h1", "f", None, <<>>, FALSE, FALSE, TRUE,
                    <<>>, <<>>, None)

InitOperator ==
    /\ kind = "operator"
    /\ _handlers = <<>>
    /\ call = [op |-> "init"]
    /\ NoOperator
    /\ NoPeering

NextOperator ==
    \/ \E which \in ResourceKinds, resource \in Resources :
          Register(which, resource, OperatorHandler(which))
    \/ \E which \in ResourceKinds, resource \in Resources :
          LookupHandlers(which, resource, PlainCause(EmptyDict))
    \/ \E which \in ResourceKinds, resource \in Resources :
          LookupRequiresFinalizer(which, resource, PlainCause(EmptyDict))
    \/ \E which \in ResourceKinds, resource \in Resources : Contains(which, resource)

SpecOperator == InitOperator /\ [][NextOperator]_vars

\* The resources for which a handler is registered in the mapping.
RegisteredIn(mapping) == {r \in DOMAIN mapping : mapping[r] # <<>>}

\* C15: resources is exactly the set of the resources with at least one
\* handler registered, watching, spawning or changing.
C15_ResourcesAreRegistered ==
    resources = RegisteredIn(resource_watching_handlers)
                    \cup RegisteredIn(resource_spawning_handlers)
                    \cup RegisteredIn(resource_changing_handlers)

----------------------------------------------------------------------------
(* Exclusion and deduplication (under Spec). *)

\* The registration is one that a registry of kind k selects for the cause,
\* its id left aside.
Selects(k, handler, cause) ==
    /\ k = "changing" =>
          /\ handler.reason = None \/ handler.reason = cause.reason
          /\ handler.initial => cause.initial
          /\ (handler.initial /\ cause.deleted) => handler.deleted
    /\ FiltersPass(handler, cause, changed_fields_of(cause), k = "watching")

\* C16: in a resource registry, when two registrations of one callback under
\* different ids both match the cause and the id of the earlier one is
\* excluded while that of the later one is not, get_handlers returns a record
\* of the callback: the earliest matching registration of it whose id is not
\* excluded (the later of the two, when they are the only ones).
C16_ExclusionBeforeDeduplication ==
    call.op = "get_handlers" =>
        \A i, j \in 1..Len(_handlers) :
            (/\ i < j
             /\ _handlers[i].fn = _handlers[j].fn
             /\ _handlers[i].id # _handlers[j].id
             /\ Selects(kind, _handlers[i], call.cause)
             /\ Selects(kind, _handlers[j], call.cause)
             /\ _handlers[i].id \in call.excluded
             /\ _handlers[j].id \notin call.excluded) =>
                LET first == CHOOSE n \in 1..j :
                                /\ _handlers[n].fn = _handlers[j].fn
                                /\ _handlers[n].id \notin call.excluded
                                /\ Selects(kind, _handlers[n], call.cause)
                                /\ \A l \in 1..(n - 1) :
                                      ~(/\ _handlers[l].fn = _handlers[j].fn
                                        /\ _handlers[l].id \notin call.excluded
                                        /\ Selects(kind, _handlers[l], call.cause))
                IN  /\ \E n \in 1..Len(call.ret) : call.ret[n] = _handlers[first]
                    /\ Len(_handlers) = 2 => call.ret = <<_handlers[2]>>

\* One callback registered as h1 and as h2, h1 excluded: h2's record is
\* returned.
C16_Witness ==
    /\ call.op = "get_handlers"
    /\ Len(_handlers) = 2
    /\ _handlers[1].fn = _handlers[2].fn
    /\ _handlers[1].id = "h1" /\ _handlers[2].id = "h2"
    /\ Selects(kind, _handlers[1], call.cause)
    /\ Selects(kind, _handlers[2], call.cause)
    /\ call.excluded = {"h1"}
    /\ call.ret = <<_handlers[2]>>

----------------------------------------------------------------------------
(* SpecFinalizerCauses: a changing registry whose handlers differ in       *)
(* requires_finalizer, id, reason, field and filters, asked whether a      *)
(* finalizer is needed for causes that differ in reason, initial, deleted, *)
(* diff and body; each answer is compared with the answers for all causes  *)
(* of the same body.                                                       *)

FinalizerFilters ==
    {[reason |-> None, field |-> <<>>, labels |-> <<>>, when |-> None],
     [reason |-> DELETE, field |-> <<>>, labels |-> <<>>, when |-> None],
     [reason |-> None, field |-> <<Seg_a>>, labels |-> <<>>, when |-> None],
     [reason |-> None, field |-> <<>>, labels |-> EnvPresent, when |-> None],
     [reason |-> None, field |-> <<>>, labels |-> <<>>, when |-> "when_initial"]}

ChangingFinalizerHandlers ==
    {ResourceHandler("ResourceChangingHandler", id, "f", filter.reason, filter.field,
                     FALSE, FALSE, finalizer, filter.labels, <<>>, filter.when) :
        id \in HandlerIds, finalizer \in BOOLEAN, filter \in FinalizerFilters}

\* The causes that differ from the cause in reason, initial, deleted and
\* diff only.
SameBodyCauses(cause) ==
    {Cause(reason, initial, deleted, diff, cause.body) :
        reason \in {CREATE, UPDATE, DELETE}, initial \in BOOLEAN, deleted \in BOOLEAN,
        diff \in {<<>>, <<<<"change", <<Seg_a>>, "old", "new">>>>}}

\* The causes asked about: a creation and the deletion of an object seen
\* first when it is already being deleted, with and without the label.
AskedFinalizerCauses ==
    {Cause(how[1], how[2], how[3], how[4], body) :
        how \in {<<CREATE, FALSE, FALSE, <<>>>>,
                 <<DELETE, TRUE, TRUE, <<<<"change", <<Seg_a>>, "old", "new">>>>>>},
        body \in {EmptyDict, BodyWith(("env" :> "prod"), EmptyDict)}}

InitFinalizerCauses ==
    /\ kind = "changing"
    /\ _handlers = <<>>
    /\ NoOperator /\ NoPeering
    /\ call = [op |-> "init"]

NextFinalizerCauses ==
    \/ \E handler \in ChangingFinalizerHandlers : AppendHandler(handler)
    \/ \E cause \in AskedFinalizerCauses, excluded \in {{}, {"h1"}} :
          RequiresFinalizer(cause, excluded)

SpecFinalizerCauses == InitFinalizerCauses /\ [][NextFinalizerCauses]_vars

\* The handler has a callable among its filters.
UsesCallable(handler) ==
    \/ handler.when # None
    \/ \E i \in 1..Len(handler.labels) : callable(handler.labels[i][2])
    \/ \E i \in 1..Len(handler.annotations) : callable(handler.annotations[i][2])

\* C17: when no registered handler uses a callable, requires_finalizer of the
\* changing registry gives the same answer for all causes with the same body,
\* whatever their reason, initial, deleted and diff; a non-excluded
\* requires_finalizer handler for reason DELETE whose other filters pass
\* makes it true for a CREATE cause, for which get_handlers does not return
\* that handler; and the answer is true only if a non-excluded
\* requires_finalizer handler without a field exists.
C17_IndependentOfReason ==
    (call.op = "requires_finalizer" /\ kind = "changing") =>
        /\ (\A h \in Range(_handlers) : ~UsesCallable(h)) =>
              \A cause \in SameBodyCauses(call.cause) :
                  requires_finalizer(_handlers, cause, call.excluded) = call.ret
        /\ \A h \in Range(_handlers) :
              (/\ h.reason = DELETE
               /\ h.requires_finalizer
               /\ h.id \notin call.excluded
               /\ h.field = <<>> /\ h.labels = <<>> /\ h.annotations = <<>> /\ h.when = None
               /\ call.cause.reason = CREATE) =>
                  /\ call.ret
                  /\ h \notin Range(get_handlers(kind, _handlers, call.cause, call.excluded))
        /\ call.ret =>
              \E h \in Range(_handlers) :
                  h.id \notin call.excluded /\ h.requires_finalizer /\ h.field = <<>>

\* The only handler that requires a finalizer is registered for DELETE, and
\* the answer for a CREATE cause is true; a field-scoped handler that
\* requires one is excluded from nothing and counts for nothing.
C17_Witness ==
    /\ call.op = "requires_finalizer" /\ kind = "changing"
    /\ call.ret
    /\ call.cause.reason = CREATE
    /\ call.excluded = {}
    /\ Len(_handlers) = 2
    /\ _handlers[1].requires_finalizer /\ _handlers[1].field # <<>>
    /\ _handlers[2].requires_finalizer /\ _handlers[2].reason = DELETE
    /\ get_handlers(kind, _handlers, call.cause, call.excluded) = <<>>

====
